---- MODULE Spec2Model ----
(***************************************************************************)
(* Model of build.py, the build orchestrator of discord-rpc: the click     *)
(* entry points (cli, libs, sign, archive, for_unity), build_lib and the   *)
(* helpers they use, over an abstract file system rooted at SCRIPT_PATH.   *)
(* One run of the script is one behaviour: Init draws the environment, the *)
(* command line and the builds/ tree left by earlier runs; every external  *)
(* command (cmake, the signing tool) is one step that may exit non-zero.   *)
(***************************************************************************)
EXTENDS Integers, Sequences, FiniteSets, TLC

VARIABLES
    sys_platform,      \* sys.platform, as its characters
    tree0,             \* history: the directories and files when the run started
    PLATFORM,          \* get_platform(): "win", "osx" or "linux"; "unset" before
    IS_BUILD_MACHINE,  \* os.environ.get('CI', '') == 'true'
    hasSdkDir,         \* 'WindowsSdkDir' in os.environ
    entry,             \* ctx.invoked_subcommand ("default" when None)
    argv,              \* the flags given on the command line
    pc,                \* position of the (single) thread of control
    outcome,           \* "running", "ok" (exit 0) or "error" (uncaught exception)
    exc,               \* the exception that ended the run, "none" otherwise
    largs,             \* the arguments libs was invoked with
    matrix,            \* the build_lib calls libs makes, in program order
    vi,                \* index in matrix of the build_lib call in progress
    cwd,               \* os.getcwd(), relative to SCRIPT_PATH
    oldDir,            \* old_dir of the cd() context manager in progress
    dirs,              \* directories under SCRIPT_PATH
    files,             \* regular files under SCRIPT_PATH
    zip,               \* builds/discord-rpc-<platform>.zip
    toVisit,           \* files os.walk has still to yield to sign
    calls,             \* history: build_lib invocations, in order
    cmds,              \* history: external commands issued, in order
    stages,            \* history: entry and return of libs, sign and archive
    treeAtSign,        \* history: files under INSTALL_ROOT when sign started
    treeAtArchive      \* history: files under INSTALL_ROOT when archive started

vars == << sys_platform, tree0, PLATFORM, IS_BUILD_MACHINE, hasSdkDir, entry, argv, pc,
           outcome, exc, largs, matrix, vi, cwd, oldDir, dirs, files, zip, toVisit, calls, cmds,
           stages, treeAtSign, treeAtArchive >>

\* Largest number of files the builds/ tree holds when the run starts.
MaxOldFiles == 2

\* Largest number of files a clean fails to remove (rmtree ignores the error).
MaxLocked == 1

----------------------------------------------------------------------------
(* Paths. A directory is the sequence of its components below SCRIPT_PATH; *)
(* a file name is the sequence of its characters.                          *)

SCRIPT_PATH == << >>

BUILDS == << "builds" >>

INSTALL_ROOT == SCRIPT_PATH \o << "builds", "install" >>

IsPrefix(p, q) == Len(p) <= Len(q) /\ SubSeq(q, 1, Len(p)) = p

Ancestors(d) == { SubSeq(d, 1, n) : n \in 1..Len(d) }

UnderInstallRoot(f) == IsPrefix(INSTALL_ROOT, f.dir)

Key(f) == [dir |-> f.dir, name |-> f.name]

NameDll == << "r", ".", "d", "l", "l" >>

NameDylib == << "r", ".", "d", "y", "l", "i", "b" >>

NameSo == << "r", ".", "s", "o" >>

NameLib == << "r", ".", "l", "i", "b" >>

NameA == << "r", ".", "a" >>

NameH == << "r", ".", "h" >>

NameHidden == << ".", "d", "l", "l" >>

ExtDll == << ".", "d", "l", "l" >>

ExtDylib == << ".", "d", "y", "l", "i", "b" >>

----------------------------------------------------------------------------
(* Pure helpers.                                                           *)

\* os.path.splitext(fname)[1]: the suffix from the last dot on, unless every
\* character before that dot is itself a dot (a leading-dot name has none).
LastDot(s) ==
    IF \E i \in 1..Len(s) : s[i] = "."
    THEN CHOOSE i \in 1..Len(s) : s[i] = "." /\ \A j \in (i+1)..Len(s) : s[j] # "."
    ELSE 0

SplitextExt(fname) ==
    LET d == LastDot(fname)
    IN  IF d > 0 /\ \E i \in 1..(d-1) : fname[i] # "."
        THEN SubSeq(fname, d, Len(fname))
        ELSE << >>

\* Mutant of Normpath: the path is left as it was joined.
Normpath_AsJoined(p) == p

\* os.path.normpath on a relative path without "..": "." components vanish.
Normpath(p) == SelectSeq(p, LAMBDA c : c # ".")

\* str.startswith
StartsWith(s, prefix) == Len(prefix) <= Len(s) /\ SubSeq(s, 1, Len(prefix)) = prefix

\* The values of sys.platform the runs are started with.
SysWin32 == << "w", "i", "n", "3", "2" >>

SysDarwin == << "d", "a", "r", "w", "i", "n" >>

SysLinux == << "l", "i", "n", "u", "x" >>

SysCygwin == << "c", "y", "g", "w", "i", "n" >>

SysPlatforms == { SysWin32, SysDarwin, SysLinux, SysCygwin }

\* Mutant of get_platform: 'win' is looked for anywhere in sys.platform.
get_platform_Contains(sp) ==
    IF \E i \in 1..Len(sp) : StartsWith(SubSeq(sp, i, Len(sp)), << "w", "i", "n" >>)
    THEN "win"
    ELSE IF sp = SysDarwin THEN "osx"
    ELSE IF StartsWith(sp, SysLinux) THEN "linux"
    ELSE "unsupported"

\* get_platform(): the name for sys.platform; "unsupported" where it raises.
get_platform(sp) ==
    IF StartsWith(sp, << "w", "i", "n" >>) THEN "win"
    ELSE IF sp = SysDarwin THEN "osx"
    ELSE IF StartsWith(sp, SysLinux) THEN "linux"
    ELSE "unsupported"

\* get_signtool(): a path on win (needs WindowsSdkDir) and osx, None on linux.
get_signtool(platform) ==
    IF platform = "win" THEN "signtool.exe"
    ELSE IF platform = "osx" THEN "/usr/bin/codesign"
    ELSE "None"

\* signable_extensions as sign() fills it in for each platform.
signable_extensions(platform) ==
    IF platform = "win" THEN { ExtDll }
    ELSE IF platform = "osx" THEN { ExtDylib }
    ELSE { }

\* An option value: build_lib tells booleans from other values by type.
BoolVal(b) == [isbool |-> TRUE, b |-> b, s |-> ""]

StrVal(s) == [isbool |-> FALSE, b |-> FALSE, s |-> s]

NoOptions == [k \in {} |-> StrVal("")]

\* Mutant of Normalize: the default is forgotten.
Normalize_NoDefault(a) == a

\* libs: static and shared default to both when neither is given.
Normalize(a) ==
    IF ~(a.static \/ a.shared)
    THEN [a EXCEPT !.static = TRUE, !.shared = TRUE]
    ELSE a

\* Mutant of FormatterOff: the build machine is not looked at.
FormatterOff_FlagOnly(a, ci) == a.skip_formatter

\* libs: the formatter is disabled on request and on the build machine.
FormatterOff(a, ci) == a.skip_formatter \/ ci

static_options(a, ci) ==
    IF FormatterOff(a, ci)
    THEN ("CLANG_FORMAT_SUFFIX" :> StrVal("none"))
    ELSE NoOptions

dynamic_options(a, ci) ==
    LET base == ("BUILD_SHARED_LIBS" :> BoolVal(TRUE)) @@ ("USE_STATIC_CRT" :> BoolVal(TRUE))
    IN  IF FormatterOff(a, ci)
        THEN ("CLANG_FORMAT_SUFFIX" :> StrVal("none")) @@ base
        ELSE base

\* Mutant of JustRelease: the caller's flag is passed on as it is.
JustRelease_AsGiven(a, ci) == a.just_release

\* libs: the build machine builds release only.
JustRelease(a, ci) == IF ci THEN TRUE ELSE a.just_release

Call(name, generator, options, jr) ==
    [build_name |-> name, generator |-> generator, options |-> options,
     just_release |-> jr]

\* Mutant of VariantsWin: the 32-bit shared variant is forgotten.
VariantsWin_No32Dynamic(a, so, do, jr) ==
    (IF a.static
     THEN << Call("win32-static", "Visual Studio 14 2015", so, jr),
             Call("win64-static", "Visual Studio 14 2015 Win64", so, jr) >>
     ELSE << >>)
    \o
    (IF a.shared
     THEN << Call("win64-dynamic", "Visual Studio 14 2015 Win64", do, jr) >>
     ELSE << >>)

\* Mutant of VariantsWin: the shared calls come before the static ones.
VariantsWin_SharedFirst(a, so, do, jr) ==
    (IF a.shared
     THEN << Call("win32-dynamic", "Visual Studio 14 2015", do, jr),
             Call("win64-dynamic", "Visual Studio 14 2015 Win64", do, jr) >>
     ELSE << >>)
    \o
    (IF a.static
     THEN << Call("win32-static", "Visual Studio 14 2015", so, jr),
             Call("win64-static", "Visual Studio 14 2015 Win64", so, jr) >>
     ELSE << >>)

\* libs on win: a 32-bit and a 64-bit build_lib call per link mode.
VariantsWin(a, so, do, jr) ==
    (IF a.static
     THEN << Call("win32-static", "Visual Studio 14 2015", so, jr),
             Call("win64-static", "Visual Studio 14 2015 Win64", so, jr) >>
     ELSE << >>)
    \o
    (IF a.shared
     THEN << Call("win32-dynamic", "Visual Studio 14 2015", do, jr),
             Call("win64-dynamic", "Visual Studio 14 2015 Win64", do, jr) >>
     ELSE << >>)

\* Mutant of VariantsOsx: the link mode is left out of the name.
VariantsOsx_OneName(a, so, do, jr) ==
    (IF a.static THEN << Call("osx", "None", so, jr) >> ELSE << >>)
    \o
    (IF a.shared THEN << Call("osx", "None", do, jr) >> ELSE << >>)

\* libs on osx: one build_lib call per link mode, no generator.
VariantsOsx(a, so, do, jr) ==
    (IF a.static THEN << Call("osx-static", "None", so, jr) >> ELSE << >>)
    \o
    (IF a.shared THEN << Call("osx-dynamic", "None", do, jr) >> ELSE << >>)

\* libs on linux: one build_lib call per link mode, no generator.
VariantsLinux(a, so, do, jr) ==
    (IF a.static THEN << Call("linux-static", "None", so, jr) >> ELSE << >>)
    \o
    (IF a.shared THEN << Call("linux-dynamic", "None", do, jr) >> ELSE << >>)

\* libs: the build_lib calls of one run, in program order.
Matrix(platform, a0, ci) ==
    LET a  == Normalize(a0)
        so == static_options(a, ci)
        do == dynamic_options(a, ci)
        jr == JustRelease(a, ci)
    IN  IF platform = "win" THEN VariantsWin(a, so, do, jr)
        ELSE IF platform = "osx" THEN VariantsOsx(a, so, do, jr)
        ELSE IF platform = "linux" THEN VariantsLinux(a, so, do, jr)
        ELSE << >>

\* Mutant of AfterConfigure: the test of just_release is inverted.
AfterConfigure_Inverted(call) == IF call.just_release THEN "debug" ELSE "release"

\* build_lib: the step that follows a successful configure.
AfterConfigure(call) == IF call.just_release THEN "release" ELSE "debug"

\* build_lib: the two directories of a variant.
build_path(build_name) == SCRIPT_PATH \o << "builds", build_name >>

install_path(build_name) == INSTALL_ROOT \o << build_name >>

\* build_lib: an option rendered for the cmake command line, booleans as ON/OFF.
RenderOption(val) == IF val.isbool THEN (IF val.b THEN "ON" ELSE "OFF") ELSE val.s

RenderOptions(options) == { << k, RenderOption(options[k]) >> : k \in DOMAIN options }

NoFile == [dir |-> << >>, name |-> << >>]

Cmd(kind, call, dir, config, target, file, ok) ==
    [kind |-> kind, variant |-> call.build_name, cwd |-> dir,
     generator |-> IF kind = "configure" THEN call.generator ELSE "None",
     defs |-> IF kind = "configure" THEN RenderOptions(call.options) ELSE { },
     prefix |-> IF kind = "configure" THEN << "..", "install", call.build_name >> ELSE << >>,
     config |-> config, target |-> target, file |-> file, ok |-> ok]

----------------------------------------------------------------------------
(* The file system.                                                        *)

File(dir, name, data) == [dir |-> dir, name |-> name, data |-> data, signed |-> FALSE]

\* Writing a file replaces the file of the same directory and name.
WriteFiles(fs, new) == { f \in fs : Key(f) \notin { Key(g) : g \in new } } \cup new

\* Mutant of isdir: the test is dropped, os.makedirs is always called.
isdir_Never(ds, path) == FALSE

\* mkdir_p: os.path.isdir(path)
isdir(ds, path) == path \in ds

\* mkdir_p: os.makedirs is called on a path that exists, and raises.
MakedirsRaises(ds, path) == ~isdir(ds, path) /\ path \in ds

\* mkdir_p: os.makedirs(path), the path and its parents, unless it is a directory.
mkdir_p(ds, path) == IF isdir(ds, path) THEN ds ELSE ds \cup Ancestors(path)

\* shutil.rmtree(path, ignore_errors=True): everything below path goes, except
\* the files in kept, which could not be removed, and the directories above them;
\* the error is ignored.
RmtreeDirs(ds, path, kept) ==
    { d \in ds : ~IsPrefix(path, d) } \cup UNION { Ancestors(f.dir) : f \in kept }

RmtreeFiles(fs, path, kept) == { f \in fs : ~IsPrefix(path, f.dir) } \cup kept

\* The sets of files a clean of path may fail to remove.
Locked(fs, path) ==
    { k \in SUBSET { f \in fs : IsPrefix(path, f.dir) } : Cardinality(k) <= MaxLocked }

\* archive: 'discord-rpc-%s.zip' % get_platform(), under builds/.
ArchiveName(platform) ==
    IF platform = "win" THEN << "r", "-", "w", "i", "n", ".", "z", "i", "p" >>
    ELSE IF platform = "osx" THEN << "r", "-", "o", "s", "x", ".", "z", "i", "p" >>
    ELSE << "r", "-", "l", "i", "n", "u", "x", ".", "z", "i", "p" >>

archive_file_path(platform) == [dir |-> SCRIPT_PATH \o << "builds" >>, name |-> ArchiveName(platform)]

\* The archive as a file of the tree; its entries are the variable zip.
ZipFile(platform) ==
    File(archive_file_path(platform).dir, archive_file_path(platform).name, "zip")

archive_dst_base_path == << "discord-rpc" >>

\* archive: the entry written for file f found by os.walk('.') from directory top.
ArchiveEntry(top, f) ==
    LET path  == << "." >> \o SubSeq(f.dir, Len(top) + 1, Len(f.dir))
    IN  [dir |-> Normpath(archive_dst_base_path \o path), name |-> f.name,
         data |-> f.data, signed |-> f.signed]

\* A path with its ".." components resolved against what precedes them.
RECURSIVE ResolvePath(_)
ResolvePath(p) ==
    IF \E i \in 2..Len(p) : p[i] = ".." /\ p[i-1] # ".."
    THEN LET i == CHOOSE i \in 2..Len(p) : p[i] = ".." /\ p[i-1] # ".."
         IN  ResolvePath(SubSeq(p, 1, i - 2) \o SubSeq(p, i + 1, Len(p)))
    ELSE p

\* The library a variant builds, by platform and link mode, and its header.
IsShared(call) ==
    "BUILD_SHARED_LIBS" \in DOMAIN call.options /\ call.options["BUILD_SHARED_LIBS"].b

LibName(platform, call) ==
    IF platform = "win" THEN (IF IsShared(call) THEN NameDll ELSE NameLib)
    ELSE IF platform = "osx" THEN (IF IsShared(call) THEN NameDylib ELSE NameA)
    ELSE (IF IsShared(call) THEN NameSo ELSE NameA)

\* cmake --build . --config <config>: the library appears in the build directory.
BuildOutputs(platform, call, config) ==
    { File(build_path(call.build_name), LibName(platform, call), config) }

\* --target install: the library and the header appear under the install prefix,
\* which configure gave relative to the build directory.
InstallOutputs(platform, call, dir) ==
    LET prefix == ResolvePath(dir \o << "..", "install", call.build_name >>)
    IN  { File(prefix, LibName(platform, call), "Release"),
          File(prefix \o << "include" >>, NameH, "Release") }

\* What earlier runs may have left under builds/.
OldFiles ==
    { File(INSTALL_ROOT \o << "old" >>, NameDll, "old"),
      File(INSTALL_ROOT, NameDylib, "old"),
      File(INSTALL_ROOT \o << "old" >>, NameHidden, "old"),
      File(INSTALL_ROOT \o << "old", "include" >>, NameH, "old"),
      File(BUILDS \o << "old" >>, NameDll, "old") }

StaleEntry == [dir |-> << "discord-rpc", "stale" >>, name |-> NameH, data |-> "old", signed |-> FALSE]

NoFlags == [clean |-> FALSE, static |-> FALSE, shared |-> FALSE,
            skip_formatter |-> FALSE, just_release |-> FALSE]

Flags == [clean : BOOLEAN, static : BOOLEAN, shared : BOOLEAN,
          skip_formatter : BOOLEAN, just_release : BOOLEAN]

Entries == { "default", "libs", "sign", "archive", "for_unity" }

\* The flags each entry point accepts on its command line.
Argv(e) ==
    IF e = "default" THEN { [NoFlags EXCEPT !.clean = c] : c \in BOOLEAN }
    ELSE IF e = "libs" THEN Flags
    ELSE { NoFlags }

\* The call of an earlier 'libs --shared' run, for the files it left.
PriorCalls(platform) == Matrix(platform, [NoFlags EXCEPT !.shared = TRUE], FALSE)

PriorFiles(platform) ==
    { [f EXCEPT !.data = "old"] :
        f \in UNION { BuildOutputs(platform, PriorCalls(platform)[i], "Release")
                        \cup InstallOutputs(platform, PriorCalls(platform)[i],
                                            build_path(PriorCalls(platform)[i].build_name))
                      : i \in 1..Len(PriorCalls(platform)) } }

Init ==
    /\ sys_platform \in SysPlatforms
    /\ PLATFORM = "unset"
    /\ IS_BUILD_MACHINE \in BOOLEAN
    /\ hasSdkDir \in (IF get_platform(sys_platform) = "win" THEN BOOLEAN ELSE { FALSE })
    /\ entry \in Entries
    /\ argv \in Argv(entry)
    /\ pc = "import"
    /\ outcome = "running"
    /\ exc = "none"
    /\ largs = NoFlags
    /\ matrix = << >>
    /\ vi = 0
    /\ cwd = SCRIPT_PATH
    /\ oldDir = SCRIPT_PATH
    /\ \E old \in SUBSET OldFiles, base \in { { }, { BUILDS }, { BUILDS, INSTALL_ROOT } },
          hasZip \in BOOLEAN, prior \in BOOLEAN :
          /\ Cardinality(old) + (IF prior THEN 1 ELSE 0) <= MaxOldFiles
          /\ old # { } \/ prior => base = { BUILDS, INSTALL_ROOT }
          /\ hasZip => base # { }
          /\ hasZip \/ prior => get_platform(sys_platform) # "unsupported"
          /\ LET plat == get_platform(sys_platform)
                 fs   == old \cup (IF prior THEN PriorFiles(plat) ELSE { })
             IN  /\ dirs = base \cup UNION { Ancestors(f.dir) : f \in fs }
                 /\ files = fs \cup (IF hasZip THEN { ZipFile(plat) } ELSE { })
          /\ tree0 = [dirs |-> dirs, files |-> files]
          /\ zip = IF hasZip THEN { StaleEntry } ELSE { }
    /\ toVisit = { }
    /\ calls = << >>
    /\ cmds = << >>
    /\ stages = << >>
    /\ treeAtSign = { }
    /\ treeAtArchive = { }

----------------------------------------------------------------------------
(* The run.                                                                *)

Event(stage, ev) == [stage |-> stage, ev |-> ev]

\* An uncaught exception: the interpreter prints it and exits non-zero.
\* Mutant of Raise: the exception is swallowed and the step is taken again.
Raise_Retry(e) ==
    /\ outcome' = outcome
    /\ exc' = exc
    /\ pc' = pc

Raise(e) ==
    /\ outcome' = "error"
    /\ exc' = e
    /\ pc' = "done"

\* The module level: PLATFORM = get_platform(), which raises on a platform it
\* does not know, before click is given control.
ModuleLevel ==
    /\ pc = "import"
    /\ IF get_platform(sys_platform) = "unsupported"
       THEN /\ Raise("Exception")
            /\ UNCHANGED PLATFORM
       ELSE /\ PLATFORM' = get_platform(sys_platform)
            /\ pc' = "start"
            /\ UNCHANGED << outcome, exc >>
    /\ UNCHANGED << sys_platform, tree0, IS_BUILD_MACHINE, hasSdkDir, entry, argv,
                    largs, matrix, vi, cwd, oldDir, dirs, files, zip, toVisit, calls,
                    cmds, stages, treeAtSign, treeAtArchive >>

\* cli, no subcommand: ctx.invoke(libs, clean=clean).
Cli ==
    /\ pc = "start" /\ entry = "default"
    /\ largs' = [NoFlags EXCEPT !.clean = argv.clean]
    /\ pc' = "libs"
    /\ UNCHANGED << sys_platform, tree0, PLATFORM, IS_BUILD_MACHINE, hasSdkDir, entry,
                    argv, outcome, exc, matrix, vi, cwd, oldDir, dirs, files, zip,
                    toVisit, calls, cmds, stages, treeAtSign, treeAtArchive >>

\* Mutant of for_unity: the static libraries are asked for as well.
for_unity_Static ==
    /\ pc = "start" /\ entry = "for_unity"
    /\ largs' = [clean |-> FALSE, static |-> TRUE, shared |-> TRUE,
                 skip_formatter |-> TRUE, just_release |-> TRUE]
    /\ pc' = "libs"
    /\ UNCHANGED << sys_platform, tree0, PLATFORM, IS_BUILD_MACHINE, hasSdkDir, entry,
                    argv, outcome, exc, matrix, vi, cwd, oldDir, dirs, files, zip,
                    toVisit, calls, cmds, stages, treeAtSign, treeAtArchive >>

\* for_unity: libs with a fixed set of arguments.
for_unity ==
    /\ pc = "start" /\ entry = "for_unity"
    /\ largs' = [clean |-> FALSE, static |-> FALSE, shared |-> TRUE,
                 skip_formatter |-> TRUE, just_release |-> TRUE]
    /\ pc' = "libs"
    /\ UNCHANGED << sys_platform, tree0, PLATFORM, IS_BUILD_MACHINE, hasSdkDir, entry,
                    argv, outcome, exc, matrix, vi, cwd, oldDir, dirs, files, zip,
                    toVisit, calls, cmds, stages, treeAtSign, treeAtArchive >>

\* libs, sign or archive named on the command line: click calls it directly.
Subcommand ==
    /\ pc = "start" /\ entry \in { "libs", "sign", "archive" }
    /\ largs' = argv
    /\ pc' = entry
    /\ UNCHANGED << sys_platform, tree0, PLATFORM, IS_BUILD_MACHINE, hasSdkDir, entry,
                    argv, outcome, exc, matrix, vi, cwd, oldDir, dirs, files, zip,
                    toVisit, calls, cmds, stages, treeAtSign, treeAtArchive >>

\* libs, up to its first build_lib call: the optional clean, mkdir_p('builds')
\* and the arguments of the calls to come.
libs ==
    /\ pc = "libs"
    /\ \E kept \in (IF largs.clean THEN Locked(files, cwd \o << "builds" >>) ELSE { { } }) :
       LET builds == cwd \o << "builds" >>
           ds == IF largs.clean THEN RmtreeDirs(dirs, builds, kept) ELSE dirs
           fs == IF largs.clean THEN RmtreeFiles(files, builds, kept) ELSE files
       IN  /\ dirs' = mkdir_p(ds, builds)
           /\ files' = fs
           /\ zip' = IF ZipFile(PLATFORM) \in fs THEN zip ELSE { }
           /\ matrix' = Matrix(PLATFORM, largs, IS_BUILD_MACHINE)
           /\ vi' = 1
           /\ IF MakedirsRaises(ds, builds)
              THEN /\ Raise("FileExistsError")
                   /\ stages' = Append(stages, Event("libs", "start"))
              ELSE IF Len(matrix') > 0
              THEN /\ pc' = "build_lib"
                   /\ stages' = Append(stages, Event("libs", "start"))
                   /\ UNCHANGED << outcome, exc >>
              ELSE /\ pc' = "libs_ret"
                   /\ stages' = stages \o << Event("libs", "start"), Event("libs", "end") >>
                   /\ UNCHANGED << outcome, exc >>
    /\ UNCHANGED << sys_platform, tree0, PLATFORM, IS_BUILD_MACHINE, hasSdkDir, entry,
                    argv, largs, cwd, oldDir, toVisit, calls, cmds, treeAtSign,
                    treeAtArchive >>

\* build_lib, up to its first command: both directories, then cd(build_path).
build_lib ==
    /\ pc = "build_lib"
    /\ LET call == matrix[vi]
           ds   == mkdir_p(dirs, build_path(call.build_name))
       IN  /\ calls' = Append(calls, call)
           /\ IF MakedirsRaises(dirs, build_path(call.build_name))
              THEN /\ Raise("FileExistsError")
                   /\ UNCHANGED << dirs, cwd, oldDir >>
              ELSE IF MakedirsRaises(ds, install_path(call.build_name))
              THEN /\ Raise("FileExistsError")
                   /\ dirs' = ds
                   /\ UNCHANGED << cwd, oldDir >>
              ELSE /\ dirs' = mkdir_p(ds, install_path(call.build_name))
                   /\ oldDir' = cwd
                   /\ cwd' = build_path(call.build_name)
                   /\ pc' = "configure"
                   /\ UNCHANGED << outcome, exc >>
    /\ UNCHANGED << sys_platform, tree0, PLATFORM, IS_BUILD_MACHINE, hasSdkDir, entry,
                    argv, largs, matrix, vi, files, zip, toVisit, cmds, stages,
                    treeAtSign, treeAtArchive >>

\* Mutant of Configure: the exit status is not checked (subprocess.call).
Configure_Unchecked ==
    /\ pc = "configure"
    /\ \E ok \in BOOLEAN :
          /\ cmds' = Append(cmds, Cmd("configure", matrix[vi], cwd, "", "", NoFile, ok))
          /\ pc' = AfterConfigure(matrix[vi])
          /\ UNCHANGED << outcome, exc >>
    /\ UNCHANGED << sys_platform, tree0, PLATFORM, IS_BUILD_MACHINE, hasSdkDir, entry,
                    argv, largs, matrix, vi, cwd, oldDir, dirs, files, zip, toVisit,
                    calls, stages, treeAtSign, treeAtArchive >>

\* subprocess.check_call(initial_cmake)
Configure ==
    /\ pc = "configure"
    /\ \E ok \in BOOLEAN :
          /\ cmds' = Append(cmds, Cmd("configure", matrix[vi], cwd, "", "", NoFile, ok))
          /\ IF ok
             THEN /\ pc' = AfterConfigure(matrix[vi])
                  /\ UNCHANGED << outcome, exc >>
             ELSE Raise("CalledProcessError")
    /\ UNCHANGED << sys_platform, tree0, PLATFORM, IS_BUILD_MACHINE, hasSdkDir, entry,
                    argv, largs, matrix, vi, cwd, oldDir, dirs, files, zip, toVisit,
                    calls, stages, treeAtSign, treeAtArchive >>

\* subprocess.check_call(['cmake', '--build', '.', '--config', 'Debug'])
DebugBuild ==
    /\ pc = "debug"
    /\ \E ok \in BOOLEAN :
          /\ cmds' = Append(cmds, Cmd("build", matrix[vi], cwd, "Debug", "", NoFile, ok))
          /\ IF ok
             THEN /\ files' = WriteFiles(files, BuildOutputs(PLATFORM, matrix[vi], "Debug"))
                  /\ pc' = "release"
                  /\ UNCHANGED << outcome, exc >>
             ELSE /\ Raise("CalledProcessError")
                  /\ UNCHANGED files
    /\ UNCHANGED << sys_platform, tree0, PLATFORM, IS_BUILD_MACHINE, hasSdkDir, entry,
                    argv, largs, matrix, vi, cwd, oldDir, dirs, zip, toVisit, calls,
                    stages, treeAtSign, treeAtArchive >>

\* subprocess.check_call([... '--config', 'Release', '--target', 'install']), the
\* end of the with block, and the return to libs: the next call, or its own return.
ReleaseInstall ==
    /\ pc = "release"
    /\ \E ok \in BOOLEAN :
          /\ cmds' = Append(cmds, Cmd("build", matrix[vi], cwd, "Release", "install", NoFile, ok))
          /\ IF ok
             THEN /\ LET new == BuildOutputs(PLATFORM, matrix[vi], "Release")
                                  \cup InstallOutputs(PLATFORM, matrix[vi], cwd)
                     IN  /\ files' = WriteFiles(files, new)
                         /\ dirs' = dirs \cup UNION { Ancestors(f.dir) : f \in new }
                  /\ cwd' = oldDir
                  /\ IF vi < Len(matrix)
                     THEN /\ vi' = vi + 1
                          /\ pc' = "build_lib"
                          /\ UNCHANGED stages
                     ELSE /\ pc' = "libs_ret"
                          /\ stages' = Append(stages, Event("libs", "end"))
                          /\ UNCHANGED vi
                  /\ UNCHANGED << outcome, exc >>
             ELSE /\ Raise("CalledProcessError")
                  /\ UNCHANGED << files, dirs, cwd, vi, stages >>
    /\ UNCHANGED << sys_platform, tree0, PLATFORM, IS_BUILD_MACHINE, hasSdkDir, entry,
                    argv, largs, matrix, oldDir, zip, toVisit, calls, treeAtSign,
                    treeAtArchive >>

\* Mutant of CliAfterLibs: archive at once, the signing stage forgotten.
CliAfterLibs_NoSign ==
    /\ pc = "libs_ret" /\ entry = "default"
    /\ pc' = "archive"
    /\ UNCHANGED << sys_platform, tree0, PLATFORM, IS_BUILD_MACHINE, hasSdkDir, entry,
                    argv, outcome, exc, largs, matrix, vi, cwd, oldDir, dirs, files,
                    zip, toVisit, calls, cmds, stages, treeAtSign, treeAtArchive >>

\* cli after libs: sign on the build machine, archive otherwise.
CliAfterLibs ==
    /\ pc = "libs_ret" /\ entry = "default"
    /\ pc' = IF IS_BUILD_MACHINE THEN "sign" ELSE "archive"
    /\ UNCHANGED << sys_platform, tree0, PLATFORM, IS_BUILD_MACHINE, hasSdkDir, entry,
                    argv, outcome, exc, largs, matrix, vi, cwd, oldDir, dirs, files,
                    zip, toVisit, calls, cmds, stages, treeAtSign, treeAtArchive >>

\* cli after sign: archive.
CliAfterSign ==
    /\ pc = "sign_ret" /\ entry = "default"
    /\ pc' = "archive"
    /\ UNCHANGED << sys_platform, tree0, PLATFORM, IS_BUILD_MACHINE, hasSdkDir, entry,
                    argv, outcome, exc, largs, matrix, vi, cwd, oldDir, dirs, files,
                    zip, toVisit, calls, cmds, stages, treeAtSign, treeAtArchive >>

\* The command returns to click, which exits with status 0.
Exit ==
    /\ \/ pc = "archive_ret"
       \/ pc \in { "libs_ret", "sign_ret" } /\ entry # "default"
    /\ pc' = "done"
    /\ outcome' = "ok"
    /\ UNCHANGED << sys_platform, tree0, PLATFORM, IS_BUILD_MACHINE, hasSdkDir, entry,
                    argv, exc, largs, matrix, vi, cwd, oldDir, dirs, files, zip,
                    toVisit, calls, cmds, stages, treeAtSign, treeAtArchive >>

\* Mutant of SdkDirMissing: the variable is read with a default (os.environ.get).
SdkDirMissing_Never(platform, has) == FALSE

\* get_signtool: os.environ['WindowsSdkDir'] raises KeyError, on win only.
SdkDirMissing(platform, has) == platform = "win" /\ ~has

\* Mutant of SignsOn: the early return of the other platforms is dropped.
SignsOn_Everywhere(platform) == TRUE

\* sign: the platforms with a signing command; on the others sign returns at once.
SignsOn(platform) == platform = "win" \/ platform = "osx"

\* sign, up to the walk: the tool, the platform's extensions, or the early return.
sign ==
    /\ pc = "sign"
    /\ treeAtSign' = { Key(f) : f \in { g \in files : UnderInstallRoot(g) } }
    /\ IF SdkDirMissing(PLATFORM, hasSdkDir)
       THEN \* os.environ['WindowsSdkDir'] raises KeyError
            /\ Raise("KeyError")
            /\ stages' = Append(stages, Event("sign", "start"))
            /\ UNCHANGED toVisit
       ELSE IF SignsOn(PLATFORM)
       THEN /\ pc' = "sign_walk"
            /\ stages' = Append(stages, Event("sign", "start"))
            /\ toVisit' = { Key(f) : f \in { g \in files : UnderInstallRoot(g) } }
            /\ UNCHANGED << outcome, exc >>
       ELSE \* 'Not signing things on this platform yet'
            /\ pc' = "sign_ret"
            /\ stages' = stages \o << Event("sign", "start"), Event("sign", "end") >>
            /\ UNCHANGED << outcome, exc, toVisit >>
    /\ UNCHANGED << sys_platform, tree0, PLATFORM, IS_BUILD_MACHINE, hasSdkDir, entry,
                    argv, largs, matrix, vi, cwd, oldDir, dirs, files, zip, calls,
                    cmds, treeAtArchive >>

\* Mutant of Signable: the extension test is dropped.
Signable_Any(platform, fname) == signable_extensions(platform) # { }

\* sign: whether the loop body signs the file os.walk yields.
Signable(platform, fname) == SplitextExt(fname) \in signable_extensions(platform)

\* sign: one file of the walk, skipped or handed to the signing tool.
SignFile ==
    /\ pc = "sign_walk"
    /\ \E k \in toVisit :
          IF ~Signable(PLATFORM, k.name)
          THEN /\ toVisit' = toVisit \ { k }
               /\ UNCHANGED << pc, outcome, exc, files, cmds >>
          ELSE \E ok \in BOOLEAN :
                  /\ cmds' = Append(cmds, [Cmd("sign", [build_name |-> "", options |-> NoOptions],
                                               cwd, "", "", k, ok)
                                           EXCEPT !.generator = get_signtool(PLATFORM)])
                  /\ IF ok
                     THEN /\ files' = { IF Key(f) = k THEN [f EXCEPT !.signed = TRUE] ELSE f
                                        : f \in files }
                          /\ toVisit' = toVisit \ { k }
                          /\ UNCHANGED << pc, outcome, exc >>
                     ELSE /\ Raise("CalledProcessError")
                          /\ UNCHANGED << files, toVisit >>
    /\ UNCHANGED << sys_platform, tree0, PLATFORM, IS_BUILD_MACHINE, hasSdkDir, entry,
                    argv, largs, matrix, vi, cwd, oldDir, dirs, zip, calls, stages,
                    treeAtSign, treeAtArchive >>

\* sign: the walk is exhausted.
SignReturn ==
    /\ pc = "sign_walk" /\ toVisit = { }
    /\ pc' = "sign_ret"
    /\ stages' = Append(stages, Event("sign", "end"))
    /\ UNCHANGED << sys_platform, tree0, PLATFORM, IS_BUILD_MACHINE, hasSdkDir, entry,
                    argv, outcome, exc, largs, matrix, vi, cwd, oldDir, dirs, files,
                    zip, toVisit, calls, cmds, treeAtSign, treeAtArchive >>

\* archive, up to the walk: the zip file is opened for writing, then cd(INSTALL_ROOT).
archive ==
    /\ pc = "archive"
    /\ stages' = Append(stages, Event("archive", "start"))
    /\ treeAtArchive' = { f \in files : UnderInstallRoot(f) }
    /\ IF archive_file_path(PLATFORM).dir \notin dirs
       THEN \* ZipFile(...) raises: no such directory
            /\ Raise("FileNotFoundError")
            /\ UNCHANGED << files, zip, cwd, oldDir >>
       ELSE /\ files' = WriteFiles(files, { ZipFile(PLATFORM) })
            /\ zip' = { }
            /\ IF INSTALL_ROOT \notin dirs
               THEN \* os.chdir raises: no such directory
                    /\ Raise("FileNotFoundError")
                    /\ UNCHANGED << cwd, oldDir >>
               ELSE /\ oldDir' = cwd
                    /\ cwd' = INSTALL_ROOT
                    /\ pc' = "archive_walk"
                    /\ UNCHANGED << outcome, exc >>
    /\ UNCHANGED << sys_platform, tree0, PLATFORM, IS_BUILD_MACHINE, hasSdkDir, entry,
                    argv, largs, matrix, vi, dirs, toVisit, calls, cmds, treeAtSign >>

\* archive: os.walk('.') and one archive_file.write per file, then the end of the
\* with block and the return.
ArchiveWalk ==
    /\ pc = "archive_walk"
    /\ zip' = { ArchiveEntry(cwd, f) : f \in { g \in files : IsPrefix(cwd, g.dir) } }
    /\ cwd' = oldDir
    /\ pc' = "archive_ret"
    /\ stages' = Append(stages, Event("archive", "end"))
    /\ UNCHANGED << sys_platform, tree0, PLATFORM, IS_BUILD_MACHINE, hasSdkDir, entry,
                    argv, outcome, exc, largs, matrix, vi, oldDir, dirs, files,
                    toVisit, calls, cmds, treeAtSign, treeAtArchive >>

Next ==
    \/ ModuleLevel
    \/ Cli
    \/ for_unity
    \/ Subcommand
    \/ libs
    \/ build_lib
    \/ Configure
    \/ DebugBuild
    \/ ReleaseInstall
    \/ CliAfterLibs
    \/ CliAfterSign
    \/ Exit
    \/ sign
    \/ SignFile
    \/ SignReturn
    \/ archive
    \/ ArchiveWalk

Spec == Init /\ [][Next]_vars

----------------------------------------------------------------------------
(* Properties.                                                             *)

Started(stage) == \E i \in 1..Len(stages) : stages[i] = Event(stage, "start")

Ended(stage) == \E i \in 1..Len(stages) : stages[i] = Event(stage, "end")

CmakeCmds == { i \in 1..Len(cmds) : cmds[i].kind \in { "configure", "build" } }

SignCmds == { i \in 1..Len(cmds) : cmds[i].kind = "sign" }

\* The commands build_lib issues for a call when all of them succeed.
StepsOf(call) ==
    << [kind |-> "configure", config |-> "", target |-> ""] >>
    \o (IF call.just_release THEN << >>
        ELSE << [kind |-> "build", config |-> "Debug", target |-> ""] >>)
    \o << [kind |-> "build", config |-> "Release", target |-> "install"] >>

\* The commands issued for the variant of that name, in order.
CmdsOf(name) == SelectSeq(cmds, LAMBDA c : c.kind \in { "configure", "build" } /\ c.variant = name)

\* Every build_lib call of the run was made and each of its commands succeeded.
AllBuilt ==
    /\ calls = matrix
    /\ Len(matrix) > 0
    /\ \A i \in CmakeCmds : cmds[i].ok
    /\ \A j \in 1..Len(calls) : Len(CmdsOf(calls[j].build_name)) = Len(StepsOf(calls[j]))

StagesOfDefault(ci) ==
    << Event("libs", "start"), Event("libs", "end") >>
    \o (IF ci THEN << Event("sign", "start"), Event("sign", "end") >> ELSE << >>)
    \o << Event("archive", "start"), Event("archive", "end") >>

\* C1: in a run of the default entry point the stages are entered and left in the
\* order libs, sign, archive, with sign present exactly on the build machine; when
\* sign or archive has started every build_lib call of the run has completed and
\* no cmake command follows a signing command; archive starts only after sign has
\* returned, and a run that exits with status 0 ended with archive.
C1_StageOrder ==
    entry = "default" =>
        /\ IsPrefix(stages, StagesOfDefault(IS_BUILD_MACHINE))
        /\ Started("sign") \/ Started("archive") => AllBuilt
        /\ \A i \in CmakeCmds, j \in SignCmds : i < j
        /\ Started("archive") /\ IS_BUILD_MACHINE =>
              /\ Ended("sign")
              /\ \A j \in SignCmds : cmds[j].ok
              /\ toVisit = { }
        /\ outcome = "ok" => stages = StagesOfDefault(IS_BUILD_MACHINE)

\* A default run on the build machine that signed a file and archived.
C1_Witness ==
    /\ entry = "default" /\ IS_BUILD_MACHINE /\ outcome = "ok"
    /\ SignCmds # { }
    /\ stages = StagesOfDefault(TRUE)

\* C2: in a run of the default entry point a command that exits non-zero is the
\* last command of the run, the run is over with an error, archive has not
\* started and nothing of this run is in the zip file; and archive starts only on
\* a complete build whose signable files, on the build machine, are all signed.
C2_FailFast ==
    entry = "default" =>
        /\ \A i \in 1..Len(cmds) :
              ~cmds[i].ok =>
                  /\ i = Len(cmds)
                  /\ pc = "done" /\ outcome = "error"
                  /\ ~Started("archive")
                  /\ zip \subseteq { StaleEntry }
        /\ outcome = "error" => ~Ended("archive")
        /\ Started("archive") =>
              /\ AllBuilt
              /\ \A i \in 1..Len(cmds) : cmds[i].ok
              /\ IS_BUILD_MACHINE =>
                    \A f \in files :
                        UnderInstallRoot(f) /\ Signable(PLATFORM, f.name) => f.signed

\* A default run ended by a failed signing command after a complete build.
C2_Witness ==
    /\ entry = "default" /\ outcome = "error"
    /\ Len(cmds) > 0 /\ ~cmds[Len(cmds)].ok /\ cmds[Len(cmds)].kind = "sign"
    /\ \E f \in files : f.signed

LibsStarted == Started("libs")

LinkModes == { IsShared(matrix[i]) : i \in 1..Len(matrix) }

\* C3: once libs has fixed its calls there is at least one; with neither static
\* nor shared given both link modes are built, and otherwise exactly the link
\* modes that were given.
C3_DefaultBoth ==
    LibsStarted =>
        /\ Len(matrix) > 0
        /\ ~largs.static /\ ~largs.shared => LinkModes = { FALSE, TRUE }
        /\ largs.static \/ largs.shared =>
              /\ (FALSE \in LinkModes) = largs.static
              /\ (TRUE \in LinkModes) = largs.shared
        /\ Ended("libs") => calls = matrix

\* libs ran to its end with neither link mode given, on each platform.
C3_Witness ==
    /\ Ended("libs") /\ ~largs.static /\ ~largs.shared
    /\ LinkModes = { FALSE, TRUE }
    /\ Len(calls) >= 2

B(x) == IF x THEN 1 ELSE 0

\* The number of link modes libs builds for the flags it was given.
ModesWanted == IF ~largs.static /\ ~largs.shared THEN 2 ELSE B(largs.static) + B(largs.shared)

VariantsWanted == IF PLATFORM = "win" THEN 2 * ModesWanted ELSE ModesWanted

CallsOfMode(shared) == { j \in 1..Len(calls) : IsShared(calls[j]) = shared }

\* C4: libs never makes more than 2 * (static + shared) build_lib calls on win
\* and static + shared elsewhere, and has made exactly that many when it
\* returns; on win they are a 32-bit and a 64-bit call for each link mode.
C4_VariantCount ==
    LibsStarted =>
        /\ Len(calls) <= VariantsWanted
        /\ Ended("libs") =>
              /\ Len(calls) = VariantsWanted
              /\ PLATFORM = "win" =>
                    \A m \in LinkModes :
                        { calls[j].generator : j \in CallsOfMode(m) }
                            = { "Visual Studio 14 2015", "Visual Studio 14 2015 Win64" }
              /\ \A m \in LinkModes :
                    Cardinality(CallsOfMode(m)) = IF PLATFORM = "win" THEN 2 ELSE 1

\* libs returned on win with both link modes, four calls made.
C4_Witness ==
    /\ Ended("libs") /\ PLATFORM = "win" /\ largs.static /\ largs.shared
    /\ Len(calls) = 4

\* C5: no two build_lib calls of a run have the same name, build directory or
\* install directory, and no two configure commands ran in the same directory
\* or were given the same install prefix.
C5_UniqueNames ==
    /\ \A i, j \in 1..Len(calls) :
          i # j =>
              /\ calls[i].build_name # calls[j].build_name
              /\ build_path(calls[i].build_name) # build_path(calls[j].build_name)
              /\ install_path(calls[i].build_name) # install_path(calls[j].build_name)
    /\ \A i, j \in { k \in 1..Len(cmds) : cmds[k].kind = "configure" } :
          i # j =>
              /\ cmds[i].cwd # cmds[j].cwd
              /\ ResolvePath(cmds[i].cwd \o cmds[i].prefix)
                    # ResolvePath(cmds[j].cwd \o cmds[j].prefix)

\* Four variants configured on win, each in its own directory.
C5_Witness ==
    /\ PLATFORM = "win" /\ Len(calls) = 4
    /\ Cardinality({ cmds[i].cwd : i \in { k \in 1..Len(cmds) : cmds[k].kind = "configure" } }) = 4

HasFormatterOff(call) ==
    /\ "CLANG_FORMAT_SUFFIX" \in DOMAIN call.options
    /\ call.options["CLANG_FORMAT_SUFFIX"] = StrVal("none")

\* C6: every build_lib call, static or shared, carries CLANG_FORMAT_SUFFIX in its
\* options exactly when skip_formatter was given or the run is on the build
\* machine, and its configure command then passes -DCLANG_FORMAT_SUFFIX=none.
C6_FormatterOption ==
    /\ \A j \in 1..Len(calls) :
          HasFormatterOff(calls[j]) = (largs.skip_formatter \/ IS_BUILD_MACHINE)
    /\ \A i \in 1..Len(cmds) :
          cmds[i].kind = "configure" =>
              (<< "CLANG_FORMAT_SUFFIX", "none" >> \in cmds[i].defs)
                  = (largs.skip_formatter \/ IS_BUILD_MACHINE)

\* A static and a shared variant configured on the build machine without
\* skip_formatter, both with the option.
C6_Witness ==
    /\ IS_BUILD_MACHINE /\ ~largs.skip_formatter
    /\ \E i, j \in 1..Len(cmds) :
          /\ cmds[i].kind = "configure" /\ cmds[j].kind = "configure"
          /\ << "BUILD_SHARED_LIBS", "ON" >> \in cmds[i].defs
          /\ << "BUILD_SHARED_LIBS", "ON" >> \notin cmds[j].defs
          /\ << "CLANG_FORMAT_SUFFIX", "none" >> \in cmds[i].defs
          /\ << "CLANG_FORMAT_SUFFIX", "none" >> \in cmds[j].defs

\* C7: on the build machine every build_lib call has just_release true and no
\* Debug command is issued; elsewhere every call has the caller's just_release.
C7_ReleaseOnly ==
    /\ \A j \in 1..Len(calls) :
          calls[j].just_release = (IF IS_BUILD_MACHINE THEN TRUE ELSE largs.just_release)
    /\ IS_BUILD_MACHINE => \A i \in 1..Len(cmds) : cmds[i].config # "Debug"

\* libs returned on the build machine although just_release was not given.
C7_Witness ==
    /\ IS_BUILD_MACHINE /\ entry = "libs" /\ ~largs.just_release
    /\ Ended("libs")
    /\ \E i \in 1..Len(cmds) : cmds[i].config = "Release"

Shape(c) == [kind |-> c.kind, config |-> c.config, target |-> c.target]

\* The commands of every build_lib call follow the steps S gives for it: each is
\* issued only after the one before succeeded, and a call that returned has
\* issued them all, once each.
BuildOrder(S(_)) ==
    \A j \in 1..Len(calls) :
        LET seq   == CmdsOf(calls[j].build_name)
            steps == S(calls[j])
        IN  /\ Len(seq) <= Len(steps)
            /\ \A k \in 1..Len(seq) :
                  /\ Shape(seq[k]) = steps[k]
                  /\ seq[k].cwd = build_path(calls[j].build_name)
                  /\ k < Len(seq) => seq[k].ok
            /\ j < Len(calls) \/ Ended("libs") =>
                  /\ Len(seq) = Len(steps)
                  /\ \A k \in 1..Len(seq) : seq[k].ok

\* The steps as the specification words them: Debug is a build+install step too.
StepsAsWorded(call) ==
    << [kind |-> "configure", config |-> "", target |-> ""] >>
    \o (IF call.just_release THEN << >>
        ELSE << [kind |-> "build", config |-> "Debug", target |-> "install"] >>)
    \o << [kind |-> "build", config |-> "Release", target |-> "install"] >>

SignableNames ==
    IF PLATFORM = "win" THEN { NameDll }
    ELSE IF PLATFORM = "osx" THEN { NameDylib }
    ELSE { }

\* The files under builds/install with a signable name when sign started.
SignableAtSign ==
    { k \in treeAtSign : IsPrefix(<< "builds", "install" >>, k.dir) /\ k.name \in SignableNames }

SignedFiles == { cmds[i].file : i \in SignCmds }

\* C9: on win and osx the signing tool is only ever run on a file that was under
\* the install root, with a signable extension, when sign started, and never
\* twice on the same file; when sign returns it has been run on each of them:
\* with N such files there were N invocations.
C9_SignExactly ==
    PLATFORM \in { "win", "osx" } =>
        /\ \A i \in SignCmds :
              /\ cmds[i].file \in SignableAtSign
              /\ cmds[i].generator = get_signtool(PLATFORM)
        /\ \A i, j \in SignCmds : i # j => cmds[i].file # cmds[j].file
        /\ Ended("sign") =>
              /\ SignedFiles = SignableAtSign
              /\ Cardinality(SignCmds) = Cardinality(SignableAtSign)
              /\ \A i \in SignCmds : cmds[i].ok

\* sign returned on win after two invocations, with a leading-dot .dll, a header
\* and a .dll outside the install root left alone.
C9_Witness ==
    /\ PLATFORM = "win" /\ Ended("sign")
    /\ Cardinality(SignCmds) >= 2
    /\ \E k \in treeAtSign : k.name = NameHidden
    /\ \E k \in treeAtSign : k.name = NameH
    /\ \E f \in files : ~UnderInstallRoot(f) /\ f.name = NameDll /\ ~f.signed

\* The entry the archive is to hold for a file of the install root.
EntryWanted(f) ==
    [dir |-> << "discord-rpc" >> \o SubSeq(f.dir, 3, Len(f.dir)), name |-> f.name,
     data |-> f.data, signed |-> f.signed]

\* C10: when archive returns, the entries of the zip file are exactly
\* discord-rpc/<relative path> for the files that were under the install root
\* when it started, one entry per file, each with the contents of its file; the
\* zip file itself, written under builds/, is not among them.
C10_ArchiveExact ==
    Ended("archive") =>
        /\ zip = { EntryWanted(f) : f \in treeAtArchive }
        /\ Cardinality(zip) = Cardinality(treeAtArchive)
        /\ treeAtArchive = { f \in files : IsPrefix(<< "builds", "install" >>, f.dir) }
        /\ \A e \in zip : e.name # ArchiveName(PLATFORM) /\ e # StaleEntry
        /\ ZipFile(PLATFORM) \in files /\ ZipFile(PLATFORM) \notin treeAtArchive

\* archive returned after sign over a tree with a file at the root, nested files
\* and signed files, with files of builds/ left outside.
C10_Witness ==
    /\ Ended("archive") /\ Started("sign")
    /\ Cardinality(zip) >= 4
    /\ \E e \in zip : e.dir = << "discord-rpc" >>
    /\ \E e \in zip : Len(e.dir) = 3
    /\ \E e \in zip : e.signed
    /\ \E f \in files : ~UnderInstallRoot(f) /\ f # ZipFile(PLATFORM)

Keys(fs) == { Key(f) : f \in fs }

\* A step that removes no directory and no file.
Grows == dirs \subseteq dirs' /\ Keys(files) \subseteq Keys(files')

\* C11: a for_unity run passes only shared variants to build_lib, each with the
\* formatter-disable option and just_release true, issues no Debug command and no
\* signing command, enters neither sign nor archive, whatever the platform and
\* whether or not on the build machine; it cleans nothing: no step of it removes
\* a directory or a file.
C11_ForUnity ==
    /\ [](entry = "for_unity" =>
            /\ \A j \in 1..Len(calls) :
                  /\ IsShared(calls[j])
                  /\ HasFormatterOff(calls[j])
                  /\ calls[j].just_release
            /\ \A i \in 1..Len(cmds) :
                  cmds[i].kind \in { "configure", "build" } /\ cmds[i].config # "Debug"
            /\ IsPrefix(stages, << Event("libs", "start"), Event("libs", "end") >>)
            /\ ~largs.clean
            /\ treeAtSign = { } /\ treeAtArchive = { }
            /\ \A f \in files : ~f.signed
            /\ Keys(tree0.files) \subseteq Keys(files)
            /\ outcome = "ok" => Ended("libs") /\ calls = matrix)
    /\ [][entry = "for_unity" => Grows /\ zip' = zip]_vars

\* for_unity ended with status 0 on the build machine on win, two shared variants
\* built and a file of an earlier run still in place.
C11_Witness ==
    /\ entry = "for_unity" /\ IS_BUILD_MACHINE /\ PLATFORM = "win" /\ outcome = "ok"
    /\ Len(calls) = 2
    /\ \E f \in files : f.data = "old" /\ f \in tree0.files

LibsPcs == { "libs", "build_lib", "configure", "debug", "release" }

\* C12: a step removes a directory or a file only if it is the start of libs
\* with clean given, before any build_lib call and any command; every other step
\* of libs leaves the zip file as it is; and a directory that exists already is
\* never an error.
C12_NonDestructive ==
    /\ [][\/ Grows /\ (pc \in LibsPcs => zip' = zip)
          \/ /\ pc = "libs" /\ largs.clean
             /\ ~Started("libs") /\ calls = << >> /\ cmds = << >>]_vars
    /\ [](exc # "FileExistsError")

\* libs returned without clean over the directories and files of an earlier run
\* of the same variant: they are all still there.
C12_Witness ==
    /\ Ended("libs") /\ ~largs.clean
    /\ \E j \in 1..Len(calls) :
          /\ build_path(calls[j].build_name) \in tree0.dirs
          /\ install_path(calls[j].build_name) \in tree0.dirs
    /\ tree0.dirs \subseteq dirs
    /\ Keys(tree0.files) \subseteq Keys(files)
    /\ tree0.files # { }

\* C13: the run ends with the KeyError of WindowsSdkDir only on win, with the
\* variable absent, and only once sign has been entered; a run that entered sign
\* on win without the variable is over with that error, no signing command was
\* issued, no file is signed and archive was not entered.
C13_SdkDirOnlyForSign ==
    /\ ~Started("sign") => exc # "KeyError"
    /\ exc = "KeyError" => PLATFORM = "win" /\ ~hasSdkDir
    /\ PLATFORM = "win" /\ ~hasSdkDir /\ Started("sign") =>
          /\ pc = "done" /\ outcome = "error" /\ exc = "KeyError"
          /\ SignCmds = { }
          /\ \A f \in files : ~f.signed
          /\ ~Started("archive")
          /\ zip \subseteq { StaleEntry }
    /\ PLATFORM = "win" /\ hasSdkDir => exc # "KeyError"

\* A default run on the build machine on win without the variable: built, then
\* ended by the KeyError in sign.
C13_Witness ==
    /\ entry = "default" /\ PLATFORM = "win" /\ ~hasSdkDir
    /\ AllBuilt /\ exc = "KeyError"
    /\ \E f \in files : UnderInstallRoot(f) /\ f.name = NameDll

\* C14: on linux no signing command is ever issued and no file is ever signed;
\* the step of sign changes no file and returns without an error, and in a
\* default run the step after its return enters archive.
C14_LinuxNoop ==
    /\ [](PLATFORM = "linux" =>
            /\ SignCmds = { }
            /\ \A f \in files : ~f.signed
            /\ Started("sign") => Ended("sign") /\ exc \notin { "KeyError" }
            /\ entry = "default" /\ IS_BUILD_MACHINE /\ outcome = "ok" =>
                  Ended("sign") /\ Ended("archive"))
    /\ [][PLATFORM = "linux" /\ pc = "sign" =>
            /\ files' = files /\ dirs' = dirs /\ zip' = zip /\ cmds' = cmds
            /\ pc' = "sign_ret" /\ outcome' = "running"]_vars
    /\ [][PLATFORM = "linux" /\ pc = "sign_ret" /\ entry = "default" =>
            pc' = "archive"]_vars

\* A default run on the build machine on linux that went through sign and
\* archived the install tree.
C14_Witness ==
    /\ PLATFORM = "linux" /\ entry = "default" /\ IS_BUILD_MACHINE /\ outcome = "ok"
    /\ Ended("sign") /\ Ended("archive")
    /\ zip # { }

\* The position of the build_lib call of that name among the calls made.
PosOf(name) == CHOOSE j \in 1..Len(calls) : calls[j].build_name = name

\* C15: the calls made are the matrix in its order, a static call never follows
\* a shared one, and on win the 32-bit call of a link mode is followed at once by
\* its 64-bit call; the cmake commands of the run come in the order of the calls
\* they belong to, with no other command between them, and a configure command
\* of any call but the first comes right after the successful Release install
\* command of the call before it; a command that failed is the last one issued.
C15_Sequential ==
    /\ Len(calls) <= Len(matrix)
    /\ \A j \in 1..Len(calls) : calls[j] = matrix[j]
    /\ \A i, j \in 1..Len(matrix) : i < j /\ IsShared(matrix[i]) => IsShared(matrix[j])
    /\ PLATFORM = "win" =>
          /\ Len(matrix) % 2 = 0
          /\ \A k \in 1..(Len(matrix) \div 2) :
                /\ matrix[2 * k - 1].generator = "Visual Studio 14 2015"
                /\ matrix[2 * k].generator = "Visual Studio 14 2015 Win64"
                /\ IsShared(matrix[2 * k - 1]) = IsShared(matrix[2 * k])
    /\ \A i \in CmakeCmds : \E j \in 1..Len(calls) : calls[j].build_name = cmds[i].variant
    /\ \A i \in CmakeCmds :
          i > 1 => /\ i - 1 \in CmakeCmds
                   /\ PosOf(cmds[i - 1].variant) <= PosOf(cmds[i].variant)
    /\ \A i \in CmakeCmds :
          cmds[i].kind = "configure" /\ PosOf(cmds[i].variant) > 1 =>
             /\ i > 1
             /\ cmds[i - 1].variant = calls[PosOf(cmds[i].variant) - 1].build_name
             /\ cmds[i - 1].kind = "build" /\ cmds[i - 1].config = "Release"
             /\ cmds[i - 1].target = "install" /\ cmds[i - 1].ok
    /\ \A i \in 1..Len(cmds) : ~cmds[i].ok => i = Len(cmds)

\* libs on win built the four variants, static and shared, one after the other.
C15_Witness ==
    /\ PLATFORM = "win" /\ AllBuilt /\ Len(calls) = 4
    /\ ~IsShared(calls[1]) /\ IsShared(calls[4])
    /\ \A j \in 1..4 : ~calls[j].just_release

\* C16: a command that failed is the last command of the run and was issued one
\* time, the run is over with the error, and every later step is ruled out; the
\* step in which a command fails changes no directory, no file and no archive,
\* so the build and install directories of the failing variant are there and the
\* installed files of the variants completed before it are as they were written.
C16_NoRetryNoRollback ==
    /\ [](\A i \in 1..Len(cmds) :
            ~cmds[i].ok =>
               /\ i = Len(cmds)
               /\ pc = "done" /\ outcome = "error" /\ exc = "CalledProcessError"
               /\ \A k \in 1..Len(cmds) : [cmds[k] EXCEPT !.ok = FALSE] = cmds[i] => k = i
               /\ cmds[i].kind \in { "configure", "build" } =>
                     /\ build_path(cmds[i].variant) \in dirs
                     /\ install_path(cmds[i].variant) \in dirs
                     /\ cmds[i].variant = calls[Len(calls)].build_name
                     /\ \A j \in 1..(Len(calls) - 1) :
                           /\ build_path(calls[j].build_name) \in dirs
                           /\ InstallOutputs(PLATFORM, calls[j], build_path(calls[j].build_name))
                                 \subseteq files)
    /\ [][exc' = "CalledProcessError" =>
            dirs' = dirs /\ files' = files /\ zip' = zip /\ calls' = calls]_vars
    /\ [][outcome # "error"]_vars

\* The Debug build of the second variant failed after the first variant was
\* built and installed.
C16_Witness ==
    /\ Len(calls) = 2 /\ Len(cmds) > 3
    /\ ~cmds[Len(cmds)].ok /\ cmds[Len(cmds)].config = "Debug"
    /\ cmds[Len(cmds)].variant = calls[2].build_name
    /\ InstallOutputs(PLATFORM, calls[1], build_path(calls[1].build_name)) \subseteq files
    /\ pc = "done" /\ outcome = "error"

\* The values of sys.platform that get_platform recognises.
Recognised == { SysWin32, SysDarwin, SysLinux }

\* C17: PLATFORM, once set, is one of win, osx and linux, the one that belongs to
\* sys.platform, and never changes afterwards; with any other sys.platform the
\* run ends at module level with the Exception: PLATFORM is never set, no stage
\* is entered, no build_lib call and no command is made, and the directories and
\* files are those the run started with.
C17_PlatformFatal ==
    /\ [](/\ PLATFORM \in { "unset", "win", "osx", "linux" }
          /\ pc # "import" /\ sys_platform \in Recognised =>
                PLATFORM = (IF sys_platform = SysWin32 THEN "win"
                            ELSE IF sys_platform = SysDarwin THEN "osx" ELSE "linux")
          /\ sys_platform \notin Recognised =>
                /\ PLATFORM = "unset"
                /\ pc \in { "import", "done" }
                /\ pc = "done" => outcome = "error" /\ exc = "Exception"
                /\ stages = << >> /\ calls = << >> /\ cmds = << >>
                /\ dirs = tree0.dirs /\ files = tree0.files
                /\ \A f \in files : ~f.signed)
    /\ [][PLATFORM # "unset" => PLATFORM' = PLATFORM]_vars
    /\ [][sys_platform' = sys_platform]_vars

\* A default run under cygwin, over the tree of an earlier run, ended at module
\* level.
C17_Witness ==
    /\ sys_platform = SysCygwin /\ entry = "default"
    /\ pc = "done" /\ outcome = "error" /\ exc = "Exception"
    /\ tree0.files # { } /\ files = tree0.files

\* The names of the directories right below the install root.
InstallSubdirs == { d[3] : d \in { e \in dirs : Len(e) = 3 /\ IsPrefix(INSTALL_ROOT, e) } }

\* C18: in a default run with clean that returned, the directories right below
\* the install root when archive is entered are those of the variants of this
\* run's matrix, every file archive found lies below one of them and none is a
\* file of an earlier run, and the archive holds no entry of an earlier run.
C18_CleanNoLeftover ==
    entry = "default" /\ largs.clean /\ outcome = "ok" =>
       /\ InstallSubdirs = { matrix[j].build_name : j \in 1..Len(matrix) }
       /\ \A f \in treeAtArchive :
             /\ Len(f.dir) >= 3
             /\ f.dir[3] \in { matrix[j].build_name : j \in 1..Len(matrix) }
             /\ f.data # "old"
       /\ \A e \in zip : e.data # "old"

\* C19: every cmake command is run with the build directory of its variant as
\* the current directory, and outside the with-blocks of cd, also once a command
\* failed inside one, the current directory is the one the run started in.
C19_CwdRestored ==
    /\ \A i \in CmakeCmds : cmds[i].cwd = build_path(cmds[i].variant)
    /\ pc \notin { "configure", "debug", "release", "archive_walk" } => cwd = SCRIPT_PATH

====
